---------------------------- MODULE Spec2Model ----------------------------
(***************************************************************************)
(* A model of the 3DCloud program: the Perlin noise texture generator      *)
(* (src/src/Noise.cpp), the cloud sphere generator and the bounding sphere *)
(* (src/src/main.cpp), the program's start-up and render loop (main) and   *)
(* the fragment shader's primary ray march (src/unnamed/part_001).         *)
(*                                                                         *)
(* Numbers.  The code computes in float and double.  The model computes in *)
(* exact fixed point:                                                      *)
(*  - noise: texture sizes are powers of two, so every coordinate, fade    *)
(*    value, gradient and interpolation is a dyadic rational that a double *)
(*    holds exactly; a value is an integer numerator over a power of the   *)
(*    grid denominator Den(width, height);                                 *)
(*  - cloud: a length is an integer number of units, with the cube size L  *)
(*    and the random draws chosen so that every product by a ratio is      *)
(*    exact;                                                               *)
(*  - march: a quantity is an integer number of 1/FScale.                  *)
(***************************************************************************)
EXTENDS Integers, Sequences, FiniteSets, TLC

VARIABLES
    p,          \* Noise.cpp: the global permutation table int p[512]
    randCtx,    \* the C library's rand() state, set by srand()
    hist,       \* the calls of generatePerlinNoiseTexture so far: arguments, table p, result
    cloud,      \* the last call of generateCloudSpheres: its arguments and result
    bound,      \* the last call of computeBoundingSphere: its input and result
    pc,         \* main(): the position in the program
    gl,         \* main(): what the renderer has been given (uniforms, texture, frames)
    ray         \* fragment shader main(): the state of one pixel's ray march

vars == <<p, randCtx, hist, cloud, bound, pc, gl, ray>>

Max2(a, b) == IF a >= b THEN a ELSE b
Min2(a, b) == IF a <= b THEN a ELSE b

RECURSIVE Pow(_, _)
Pow(b, e) == IF e = 0 THEN 1 ELSE b * Pow(b, e - 1)

(***************************************************************************)
(* Noise.cpp                                                               *)
(***************************************************************************)

\* The largest seed a call is made with (seeds are 0..MaxSeed).
MaxSeed == 2
\* Texture sizes are 2^0 .. 2^MaxDimLog, and the non-positive sizes of BadDims.
MaxDimLog == 4
\* The longest sequence of calls of generatePerlinNoiseTexture in SpecNoiseCalls.
MaxCalls == 3

\* int p[512] and the 256-entry permutation it duplicates.
TableSize == 512
PermSize == 256
\* double frequency = 8.0
Frequency == 8

Seeds == 0..MaxSeed
BadDims == {-2, -1, 0}
Dims == BadDims \cup {Pow(2, k) : k \in 0..MaxDimLog}
\* The sizes of the calls that are repeated in SpecNoiseCalls.
CallDims == {<<1, 1>>, <<16, 2>>}

\* rand() of the BSD C library the program is built against (CMakeLists.txt links
\* the macOS frameworks): the minimal standard generator, by Schrage's method.
\* RAND_MAX is 2^31 - 1 and the new state is below it, so the value returned,
\* state % (RAND_MAX + 1), is the state.
RandModulus == 2147483647
rand(ctx) ==
    LET c  == IF ctx = 0 THEN 123459876 ELSE ctx
        hi == c \div 127773
        lo == c % 127773
        x  == 16807 * lo - 2836 * hi
        nx == IF x < 0 THEN x + RandModulus ELSE x
    IN  [value |-> nx, ctx |-> nx]

\* srand(seed): the state rand() continues from.
srand(seed) == seed

\* ShuffleStep with the swap lost (permutation[i] swapped with itself).
ShuffleStepNoSwap(st, i) ==
    [permutation |-> st.permutation, ctx |-> rand(st.ctx).ctx]

\* ShuffleStep with half of the swap lost: permutation[i] = permutation[j] only.
ShuffleStepCopy(st, i) ==
    LET r == rand(st.ctx)
        j == r.value % (i + 1)
    IN  [permutation |-> [st.permutation EXCEPT ![i] = st.permutation[j]],
         ctx |-> r.ctx]

\* One iteration of the Fisher-Yates loop of initPermutation:
\* int j = rand() % (i + 1); std::swap(permutation[i], permutation[j]).
ShuffleStep(st, i) ==
    LET r == rand(st.ctx)
        j == r.value % (i + 1)
    IN  [permutation |-> [st.permutation EXCEPT ![i] = st.permutation[j],
                                                ![j] = st.permutation[i]],
         ctx |-> r.ctx]

\* The iterations i, i-1, .., lo+1 of the loop.
RECURSIVE ShuffleRun(_, _, _)
ShuffleRun(st, i, lo) ==
    IF i <= lo THEN st ELSE ShuffleRun(ShuffleStep(st, i), i - 1, lo)

\* The loop for (int i = 255; i > 0; i--), in runs of 16 iterations
\* (the evaluation is split to keep the recursion shallow; the result is that of
\* one run from i down to 1).
RECURSIVE Shuffle(_, _)
Shuffle(st, i) ==
    IF i <= 0 THEN st
    ELSE LET lo   == Max2(0, i - 16)
             next == ShuffleRun(st, i, lo)
         IN  IF next.ctx >= 0 THEN Shuffle(next, lo) ELSE next

\* initPermutation without its srand(seed): the shuffle continues the rand() state.
initPermutationNoSrand(seed, ctx) ==
    LET identity == [i \in 0..(PermSize - 1) |-> i]
        s == Shuffle([permutation |-> identity, ctx |-> ctx], PermSize - 1)
    IN  [p |-> [i \in 0..(TableSize - 1) |-> s.permutation[i % PermSize]],
         ctx |-> s.ctx]

\* initPermutation(seed), from the rand() state ctx: the new table and rand() state.
initPermutation(seed, ctx) ==
    LET identity == [i \in 0..(PermSize - 1) |-> i]
        s == Shuffle([permutation |-> identity, ctx |-> srand(seed)], PermSize - 1)
    IN  [p |-> [i \in 0..(TableSize - 1) |-> s.permutation[i % PermSize]],
         ctx |-> s.ctx]

\* The denominator of the fixed-point grid: sample coordinates 8*i/width and
\* 8*j/height are whole numbers of 1/Den.
Den(width, height) == Max2(1, Max2(width, height) \div Frequency)

\* fade(t) = t*t*t*(t*(t*6 - 15) + 10), t = a/D; the result is in 1/D^5.
fade(a, D) == a * a * a * (a * (a * 6 - 15 * D) + 10 * D * D)

\* lerp with its two ends exchanged: b + t*(a - b).
lerpEndsSwapped(t, a, b, T) == b * T + t * (a - b)

\* lerp(t, a, b) = a + t*(b - a), t in 1/T; the result is in 1/T of a's unit.
lerp(t, a, b, T) == a * T + t * (b - a)

\* grad(hash, x, y)
grad(hash, x, y) ==
    LET h == hash % 8
        u == IF h < 4 THEN x ELSE y
        v == IF h < 4 THEN y ELSE x
    IN  (IF h % 2 = 1 THEN -u ELSE u) + (IF (h \div 2) % 2 = 1 THEN -v ELSE v)

\* perlin(x, y) on table tbl, x and y in 1/D (both >= 0); the result is in 1/D^11.
perlin(tbl, x, y, D) ==
    LET X  == (x \div D) % 256
        Y  == (y \div D) % 256
        xf == x - (x \div D) * D
        yf == y - (y \div D) * D
        u  == fade(xf, D)
        v  == fade(yf, D)
        A  == tbl[X] + Y
        B  == tbl[X + 1] + Y
        F  == Pow(D, 5)
    IN  lerp(v,
             lerp(u, grad(tbl[A], xf, yf), grad(tbl[B], xf - D, yf), F),
             lerp(u, grad(tbl[A + 1], xf, yf - D), grad(tbl[B + 1], xf - D, yf - D), F),
             F)

\* The places of table p that perlin reads for cell (X, Y): p[X], p[X + 1],
\* p[A], p[A + 1], p[B], p[B + 1] with A = p[X] + Y and B = p[X + 1] + Y.
PerlinIndices(tbl, X, Y) ==
    {X, X + 1, tbl[X] + Y, tbl[X] + Y + 1, tbl[X + 1] + Y, tbl[X + 1] + Y + 1}

\* The body of the two loops of generatePerlinNoiseTexture: the byte of sample (i, j).
Sample(tbl, width, height, i, j) ==
    LET D   == Den(width, height)
        S   == Pow(D, 11)
        x   == (i * Frequency * D) \div width
        y   == (j * Frequency * D) \div height
        nv  == perlin(tbl, x, y, D) + S          \* (noiseValue + 1.0), in 1/S
        cl  == Min2(Max2(nv, 0), 2 * S)          \* clamped (noiseValue + 1.0)/2.0, in 1/(2S)
    IN  (cl * 255) \div (2 * S)

\* std::vector<unsigned char> textureData(width * height): the int product is
\* converted to size_t, so a negative product asks for more than max_size() and
\* the constructor throws std::length_error; the elements start as 0.
TextureAlloc(width, height) ==
    LET n == width * height
    IN  IF n < 0 THEN [fault |-> TRUE, data |-> <<>>]
        ELSE [fault |-> FALSE, data |-> [k \in 1..n |-> 0]]

\* generatePerlinNoiseTexture(width, height, seed) on table tbl (already
\* initialised by initPermutation): fault, or the grid returned.
TextureData(tbl, width, height) ==
    LET a == TextureAlloc(width, height)
    IN  IF a.fault THEN a
        ELSE [fault |-> FALSE,
              data |-> [k \in 1..Len(a.data) |->
                          IF width > 0 /\ height > 0
                          THEN Sample(tbl, width, height, (k - 1) % width, (k - 1) \div width)
                          ELSE a.data[k]]]

\* One call of Noise::generatePerlinNoiseTexture.
Generate(width, height, seed) ==
    LET ip == initPermutation(seed, randCtx)
        t  == TextureData(ip.p, width, height)
    IN  /\ p' = ip.p
        /\ randCtx' = ip.ctx
        /\ hist' = Append(hist, [width |-> width, height |-> height, seed |-> seed,
                                 table |-> ip.p, fault |-> t.fault, grid |-> t.data])
        /\ UNCHANGED <<cloud, bound, pc, gl, ray>>

\* A first call, with any size and seed.
NoiseOnce ==
    /\ hist = <<>>
    /\ \E width \in Dims, height \in Dims, seed \in Seeds : Generate(width, height, seed)

\* A call in a sequence of calls.
NoiseAgain ==
    /\ Len(hist) < MaxCalls
    /\ \E d \in CallDims, seed \in Seeds : Generate(d[1], d[2], seed)

(***************************************************************************)
(* main.cpp: generateCloudSpheres and computeBoundingSphere                *)
(***************************************************************************)

\* The largest sphere count N a call of generateCloudSpheres asks for.
MaxCount == 65
\* The length unit: 80 units are 1.0, so main's L = 10.0f is 800 units.
UnitsPerOne == 80
\* uniform vec4 uSpheres[64]: the capacity of the renderer's sphere array.
SphereCap == 64
\* glm::vec3 minP(1e9f), maxP(-1e9f): a number beyond every coordinate.
InitExtent == 1000000000

\* float L = 10.0f; int N = 20 (main)
MainL == 10 * UnitsPerOne
MainN == 20

CubeSizes == {MainL}
Counts == {-1, 0, 1, 2, 3, MaxCount}

\* What the random engine can return, as the code uses it: a uniform01 sample
\* u/100, a Beta sample br/100 (both ends included: the quotient
\* x/(x+y) of two floats rounds to 0 and to 1), and Gaussian samples below 0,
\* inside and above L.
Uniforms == {0, 100}
Betas == {0, 50, 100}
GaussX(L) == {-(L \div 8), L \div 2, L + L \div 8}
GaussZ(L) == {L \div 4, L \div 2}
Draws(L) == [gx : GaussX(L), gz : GaussZ(L), u : Uniforms, br : Betas]
\* The samples of one call: the base sphere's uniform sample, the samples of the
\* first loop iteration and those of every later iteration.
Rngs(L) == [base : Uniforms, first : Draws(L), rest : Draws(L)]
DrawAt(rng, i) == IF i = 0 THEN rng.first ELSE rng.rest

\* The base sphere (main.cpp lines 41-52); delta_ratio = 0.1, base_radius_ratio = 0.3.
BaseSphere(L, rng) ==
    LET delta           == L \div 10
        base_y          == (rng.base * (delta \div 2)) \div 100
        dx              == L \div 2
        dz              == L \div 2
        max_base_radius == Min2(Min2(dx, dz), (L - base_y) \div 2)
        base_radius     == Min2((L * 3) \div 10, max_base_radius)
    IN  [center |-> <<L \div 2, base_y + base_radius, L \div 2>>, radius |-> base_radius]

\* float radius = min_radius + br*(max_radius - min_radius)
BlendRadius(min_radius, max_radius, br) ==
    min_radius + (br * (max_radius - min_radius)) \div 100

\* Iteration i of the loop for (int i = 0; i < N-1; i++) (main.cpp lines 66-84).
LoopSphere(L, base_radius, d) ==
    LET delta        == L \div 10
        x            == Max2(0, Min2(L, d.gx))
        z            == Max2(0, Min2(L, d.gz))
        dx_          == Min2(x, L - x)
        dz_          == Min2(z, L - z)
        y_base       == (d.u * delta) \div 100
        max_radius_y == (L - y_base) \div 2
        d_max        == Min2(Min2(dx_, dz_), max_radius_y)
        min_radius   == Max2(L \div 20, base_radius \div 5)
        max_radius   == Min2(d_max, L \div 2)
        radius       == BlendRadius(min_radius, max_radius, d.br)
    IN  [center |-> <<x, y_base + radius, z>>, radius |-> radius]

\* generateCloudSpheres(L, N) with the default ratios.  spheres.reserve(N)
\* converts N to size_t: a negative N asks for more than max_size() and reserve
\* throws std::length_error.  The base sphere is pushed whatever N is.
generateCloudSpheres(L, N, rng) ==
    IF N < 0 THEN [fault |-> TRUE, spheres |-> <<>>]
    ELSE LET base == BaseSphere(L, rng)
             n    == 1 + Max2(N - 1, 0)
         IN  [fault |-> FALSE,
              spheres |-> [k \in 1..n |->
                             IF k = 1 THEN base
                             ELSE LoopSphere(L, base.radius, DrawAt(rng, k - 2))]]

\* The largest r in lo..hi with r*r <= n (lo*lo <= n).
RECURSIVE SqrtSearch(_, _, _)
SqrtSearch(n, lo, hi) ==
    IF lo >= hi THEN lo
    ELSE LET mid == (lo + hi + 1) \div 2
         IN  IF mid * mid <= n THEN SqrtSearch(n, mid, hi) ELSE SqrtSearch(n, lo, mid - 1)

\* sqrt, rounded down to a unit.
Sqrt(n) == SqrtSearch(n, 0, Min2(n, 46340))

\* glm::length(a - b)
Distance(a, b) ==
    Sqrt((a[1] - b[1]) * (a[1] - b[1]) + (a[2] - b[2]) * (a[2] - b[2])
         + (a[3] - b[3]) * (a[3] - b[3]))

\* The least and the greatest member of a non-empty set of integers.
SetMin(S) == CHOOSE m \in S : \A x \in S : m <= x
SetMax(S) == CHOOSE m \in S : \A x \in S : m >= x

\* The first loop of computeBoundingSphere, axis k: minP[k] starts at 1e9f and is
\* lowered to every c[k] - s.radius below it; maxP[k] starts at -1e9f and is raised
\* to every c[k] + s.radius above it.
MinP(spheres, k) ==
    SetMin({InitExtent} \cup {spheres[i].center[k] - spheres[i].radius : i \in 1..Len(spheres)})
MaxP(spheres, k) ==
    SetMax({-InitExtent} \cup {spheres[i].center[k] + spheres[i].radius : i \in 1..Len(spheres)})

\* glm::vec3 center = 0.5f*(minP + maxP)
BoundCenter(spheres) ==
    <<(MinP(spheres, 1) + MaxP(spheres, 1)) \div 2,
      (MinP(spheres, 2) + MaxP(spheres, 2)) \div 2,
      (MinP(spheres, 3) + MaxP(spheres, 3)) \div 2>>

\* The radius loop with the sphere's own radius left out of dist_.
BoundRadiusCentersOnly(spheres, center) ==
    SetMax({0} \cup {Distance(spheres[i].center, center) : i \in 1..Len(spheres)})

\* The second loop of computeBoundingSphere: radius starts at 0.f and is raised to
\* every dist_ = glm::length(s.center - center) + s.radius above it.
BoundRadius(spheres, center) ==
    SetMax({0} \cup {Distance(spheres[i].center, center) + spheres[i].radius :
                        i \in 1..Len(spheres)})

\* computeBoundingSphere(spheres).  The code has no failure path: fault is FALSE.
computeBoundingSphere(spheres) ==
    LET center == BoundCenter(spheres)
    IN  [fault |-> FALSE, center |-> center, radius |-> BoundRadius(spheres, center)]

\* A call of generateCloudSpheres.
CallGenerate ==
    /\ ~cloud.called
    /\ ~bound.called
    /\ \E L \in CubeSizes, N \in Counts :
         \E rng \in Rngs(L) :
            LET g == generateCloudSpheres(L, N, rng)
            IN  cloud' = [called |-> TRUE, L |-> L, N |-> N,
                          fault |-> g.fault, spheres |-> g.spheres]
    /\ UNCHANGED <<p, randCtx, hist, bound, pc, gl, ray>>

\* A call of computeBoundingSphere, with the spheres generated so far (none
\* before generateCloudSpheres has returned).
CallBound ==
    /\ ~bound.called
    /\ ~cloud.fault
    /\ LET b == computeBoundingSphere(cloud.spheres)
       IN  bound' = [called |-> TRUE, input |-> cloud.spheres, fault |-> b.fault,
                     center |-> b.center, radius |-> b.radius]
    /\ UNCHANGED <<p, randCtx, hist, cloud, pc, gl, ray>>

InitCloud ==
    /\ cloud = [called |-> FALSE, L |-> 0, N |-> 0, fault |-> FALSE, spheres |-> <<>>]
    /\ bound = [called |-> FALSE, input |-> <<>>, fault |-> FALSE,
                center |-> <<0, 0, 0>>, radius |-> 0]

NextCloud == CallGenerate \/ CallBound

(***************************************************************************)
(* main.cpp: main                                                          *)
(***************************************************************************)

\* The most frames the render loop draws before the window is closed.
MaxFrames == 2

\* What the renderer holds: the shader's uniforms (0 until a glUniform call sets
\* them), the texture bound to uNoiseTex (none until one is uploaded), whether the
\* vertex array and the shader program exist, and the frames drawn.
GlDefault ==
    [uSphereCount |-> 0, uSpheres |-> <<>>, uBoundingSphereCenter |-> <<0, 0, 0>>,
     uBoundingSphereRadius |-> 0, uNoiseTex |-> <<>>, vao |-> FALSE, program |-> FALSE,
     frames |-> 0, exit |-> 0]

\* if (!glfwInit()) return -1;
GlfwInit ==
    /\ pc = "glfwInit"
    /\ \E ok \in BOOLEAN :
         IF ok THEN pc' = "createWindow" /\ gl' = gl
         ELSE pc' = "exit" /\ gl' = [gl EXCEPT !.exit = -1]
    /\ UNCHANGED <<p, randCtx, hist, cloud, bound, ray>>

\* glfwCreateWindow(800, 600, ...); if (!window) { glfwTerminate(); return -1; }
CreateWindow ==
    /\ pc = "createWindow"
    /\ \E ok \in BOOLEAN :
         IF ok THEN pc' = "loadGL" /\ gl' = gl
         ELSE pc' = "exit" /\ gl' = [gl EXCEPT !.exit = -1]
    /\ UNCHANGED <<p, randCtx, hist, cloud, bound, ray>>

\* if (!gladLoadGLLoader(...)) return -1;
LoadGL ==
    /\ pc = "loadGL"
    /\ \E ok \in BOOLEAN :
         IF ok THEN pc' = "generate" /\ gl' = gl
         ELSE pc' = "exit" /\ gl' = [gl EXCEPT !.exit = -1]
    /\ UNCHANGED <<p, randCtx, hist, cloud, bound, ray>>

\* auto spheres = generateCloudSpheres(L, N);
MainGenerate ==
    /\ pc = "generate"
    /\ \E rng \in Rngs(MainL) :
         LET g == generateCloudSpheres(MainL, MainN, rng)
         IN  cloud' = [called |-> TRUE, L |-> MainL, N |-> MainN,
                       fault |-> g.fault, spheres |-> g.spheres]
    /\ pc' = "bound"
    /\ UNCHANGED <<p, randCtx, hist, bound, gl, ray>>

\* Sphere bounding = computeBoundingSphere(spheres);
MainBound ==
    /\ pc = "bound"
    /\ LET b == computeBoundingSphere(cloud.spheres)
       IN  bound' = [called |-> TRUE, input |-> cloud.spheres, fault |-> b.fault,
                     center |-> b.center, radius |-> b.radius]
    /\ pc' = "buffers"
    /\ UNCHANGED <<p, randCtx, hist, cloud, gl, ray>>

\* glGenVertexArrays .. glBindVertexArray(0): the full-screen triangle.
SetupBuffers ==
    /\ pc = "buffers"
    /\ gl' = [gl EXCEPT !.vao = TRUE]
    /\ pc' = "shader"
    /\ UNCHANGED <<p, randCtx, hist, cloud, bound, ray>>

\* Shader shader(...); glEnable(GL_DEPTH_TEST);  The constructor compiles and
\* links the program; it sets no uniform.
LoadShader ==
    /\ pc = "shader"
    /\ gl' = [gl EXCEPT !.program = TRUE]
    /\ pc' = "loop"
    /\ UNCHANGED <<p, randCtx, hist, cloud, bound, ray>>

\* One iteration of while (!glfwWindowShouldClose(window)): glViewport, glClear,
\* shader.use(), glBindVertexArray, glDrawArrays, glfwSwapBuffers, glfwPollEvents.
DrawFrame ==
    /\ pc = "loop"
    /\ gl.frames < MaxFrames
    /\ gl' = [gl EXCEPT !.frames = gl.frames + 1]
    /\ UNCHANGED <<p, randCtx, hist, cloud, bound, pc, ray>>

\* glfwWindowShouldClose(window) is true: glfwDestroyWindow, glfwTerminate, return 0.
CloseWindow ==
    /\ pc = "loop"
    /\ pc' = "exit"
    /\ UNCHANGED <<p, randCtx, hist, cloud, bound, gl, ray>>

Next ==
    \/ GlfwInit \/ CreateWindow \/ LoadGL \/ MainGenerate \/ MainBound
    \/ SetupBuffers \/ LoadShader \/ DrawFrame \/ CloseWindow

(***************************************************************************)
(* The fragment shader (src/unnamed/part_001): the primary ray march       *)
(***************************************************************************)

\* Densities, absorption, transmittance and exp are whole numbers of 1/FScale.
FScale == 10000
\* Ray directions are whole numbers of 1/DirScale.
DirScale == 1000
\* const int STEPS = 64
STEPS == 64

\* Screen coordinates uv = vTexCoord*2 - 1, in halves: the centre, the middle of
\* the right edge, a corner (whose ray misses the sphere) and a point between.
UVs == {<<0, 0>>, <<2, 0>>, <<2, 2>>, <<-1, 1>>}
\* uBoundingSphereRadius, in length units: 1.0, the base sphere alone, a cloud.
Radii == {UnitsPerOne, 3 * UnitsPerOne, 7 * UnitsPerOne}
\* What cloudDensity finds at a sample position: the position is outside every
\* sphere (Outside), or inside one, where the noise texture gives a byte.
Outside == -1
NoiseBytes == {79, 127, 255}
Cells == {Outside} \cup NoiseBytes
\* The cells along a ray: step i meets cell cells[(i % 2) + 1].
CellRuns == [1..2 -> Cells]

\* smoothstep(0.3, 1.0, noiseVal), noiseVal = byte/255:
\* t = clamp((x - 0.3)/0.7, 0, 1); t*t*(3 - 2*t).
smoothstep(byte) ==
    LET x == (byte * FScale) \div 255
        t == Min2(Max2(((x - (3 * FScale) \div 10) * 10) \div 7, 0), FScale)
    IN  (((t * t) \div FScale) * (3 * FScale - 2 * t)) \div FScale

\* cloudDensity(pos) at a position whose cell is c.
cloudDensity(c) == IF c = Outside THEN 0 ELSE smoothstep(c)

\* The sum of the series a^n/n! from the term `term` (of index n) on, a >= 0.
RECURSIVE ExpSeries(_, _, _)
ExpSeries(a, term, n) ==
    IF term = 0 THEN 0
    ELSE term + ExpSeries(a, (term * a) \div (FScale * (n + 1)), n + 1)

\* exp(x), x in 1/FScale.
exp(x) ==
    IF x >= 0 THEN ExpSeries(x, FScale, 0)
    ELSE (FScale * FScale) \div ExpSeries(-x, FScale, 0)

\* The ray of pixel uv against the bounding sphere of radius R (lines 65-94):
\* ro = c + (0, 0, 2R), rd = normalize(uv*R, -2R), oc = ro - c.
Intersect(uv, R) ==
    LET vx      == (uv[1] * R) \div 2
        vy      == (uv[2] * R) \div 2
        vz      == -(2 * R)
        len     == Sqrt(vx * vx + vy * vy + vz * vz)
        rdz     == (vz * DirScale) \div len
        b       == (2 * R * rdz) \div DirScale
        c2      == 4 * R * R - R * R
        det     == b * b - c2
        sqrtDet == Sqrt(det)
        t1      == -b - sqrtDet
        t2      == -b + sqrtDet
    IN  IF det < 0 \/ t2 < 0
        THEN [hit |-> FALSE, tNear |-> 0, tFar |-> 0]
        ELSE [hit |-> TRUE, tNear |-> Max2(t1, 0), tFar |-> t2]

\* marchStep with the two ends exchanged.
MarchSpanReversed(tNear, tFar) == tNear - tFar

\* float marchStep = (tFar - tNear) / float(STEPS), as the number of
\* 1/STEPS length units.
MarchSpan(tNear, tFar) == tFar - tNear

\* float absorb = dens * (sigma_a + sigma_s) * marchStep, sigma_a + sigma_s = 2.2.
Absorb(dens, span) == (dens * 22 * span) \div (10 * STEPS * UnitsPerOne)

\* main() up to the march loop: the intersection test and the loop's start.
RayStart ==
    /\ ray.phase = "idle"
    /\ \E uv \in UVs, R \in Radii, cells \in CellRuns :
         LET x == Intersect(uv, R)
         IN  ray' = [phase |-> IF x.hit THEN "march" ELSE "background",
                     uv |-> uv, R |-> R, cells |-> cells,
                     tNear |-> x.tNear, tFar |-> x.tFar,
                     span |-> IF x.hit THEN MarchSpan(x.tNear, x.tFar) ELSE 0,
                     i |-> 0, dens |-> 0, factor |-> FScale, transmittance |-> FScale]
    /\ UNCHANGED <<p, randCtx, hist, cloud, bound, pc, gl>>

\* One iteration of for (int i = 0; i < STEPS; i++) (lines 115-151).  The shadow
\* march and outColor of the iteration do not enter transmittance and are left out.
MarchStep ==
    /\ ray.phase = "march"
    /\ LET dens   == cloudDensity(ray.cells[(ray.i % 2) + 1])
           factor == exp(-Absorb(dens, ray.span))
           next   == (ray.transmittance * factor) \div FScale
       IN  IF dens > FScale \div 1000
           THEN ray' = [ray EXCEPT !.dens = dens, !.factor = factor,
                                   !.transmittance = next,
                                   !.i = ray.i + 1,
                                   !.phase = IF next < FScale \div 1000 \/ ray.i + 1 = STEPS
                                             THEN "done" ELSE "march"]
           ELSE ray' = [ray EXCEPT !.dens = dens, !.factor = FScale,
                                   !.i = ray.i + 1,
                                   !.phase = IF ray.i + 1 = STEPS THEN "done" ELSE "march"]
    /\ UNCHANGED <<p, randCtx, hist, cloud, bound, pc, gl>>

NextMarch == RayStart \/ MarchStep

(***************************************************************************)
(* Specifications                                                          *)
(***************************************************************************)

InitNoise ==
    /\ p = [i \in 0..(TableSize - 1) |-> 0]
    /\ randCtx = 1
    /\ hist = <<>>

InitMain == pc = "glfwInit" /\ gl = GlDefault

InitRay ==
    ray = [phase |-> "idle", uv |-> <<0, 0>>, R |-> 0, cells |-> <<Outside, Outside>>,
           tNear |-> 0, tFar |-> 0, span |-> 0, i |-> 0, dens |-> 0,
           factor |-> FScale, transmittance |-> FScale]

Init == InitNoise /\ InitCloud /\ InitMain /\ InitRay

Spec == Init /\ [][Next]_vars

SpecNoise == Init /\ [][NoiseOnce]_vars
SpecNoiseCalls == Init /\ [][NoiseAgain]_vars
SpecCloud == Init /\ [][NextCloud]_vars
SpecMarch == Init /\ [][NextMarch]_vars

(***************************************************************************)
(* Claims about generateCloudSpheres and computeBoundingSphere             *)
(***************************************************************************)

Reach(s, b) == Distance(s.center, b.center) + s.radius

\* C2: the sphere computeBoundingSphere returns for a non-empty set contains
\* every input sphere, distance(s.center, center) + s.radius <= radius, and its
\* centre is the centre of the box spanned by center +/- radius of the spheres.
C2_BoundingContainsAll ==
    (bound.called /\ bound.input # <<>>) =>
        LET in == bound.input
            I  == 1..Len(in)
        IN  /\ \A i \in I : Reach(in[i], bound) <= bound.radius
            /\ \A k \in 1..3 :
                  2 * bound.center[k] =
                      SetMin({in[i].center[k] - in[i].radius : i \in I})
                    + SetMax({in[i].center[k] + in[i].radius : i \in I})

\* A bounding sphere of three or more spheres, one touching it from inside and
\* one strictly inside.
C2_Witness ==
    /\ bound.called
    /\ Len(bound.input) >= 3
    /\ bound.radius > 0
    /\ \E i \in 1..Len(bound.input) : Reach(bound.input[i], bound) = bound.radius
    /\ \E i \in 1..Len(bound.input) : Reach(bound.input[i], bound) < bound.radius

\* C3: every non-base sphere of generateCloudSpheres has 0 < radius <= 0.5*L
\* and radius >= minRadius = max(0.05*L, baseRadius*0.2), also when
\* maxRadius < minRadius (a position clamped onto a wall of the cube).
C3_RadiusBounds ==
    (cloud.called /\ ~cloud.fault) =>
        \A i \in 2..Len(cloud.spheres) :
            LET r == cloud.spheres[i].radius
            IN  /\ 0 < r
                /\ 2 * r <= cloud.L
                /\ r >= Max2(cloud.L \div 20, cloud.spheres[1].radius \div 5)

\* C5: for every requested count N generateCloudSpheres returns at most 64
\* spheres, the capacity of the renderer's array uSpheres.
C5_AtMostSphereCap ==
    cloud.called => Len(cloud.spheres) <= SphereCap

\* C7: generateCloudSpheres(L, N) returns max(N, 0) spheres: N spheres for
\* N >= 1 and, without fault, none for N <= 0.
C7_CountIsMaxN0 ==
    cloud.called => (~cloud.fault /\ Len(cloud.spheres) = Max2(cloud.N, 0))

\* C8: computeBoundingSphere on an empty set fails explicitly instead of
\* returning a sphere made from the untouched extrema.
C8_EmptyInputFails ==
    (bound.called /\ bound.input = <<>>) => bound.fault

(***************************************************************************)
(* Claims about main                                                       *)
(***************************************************************************)

\* C4: a frame is drawn only after the CloudSet has been generated, the bounding
\* sphere computed from it, the NoiseGrid generated, and all three given to the
\* renderer (sphere and bounding-sphere uniforms set, noise texture uploaded).
C4_FramesAfterSceneGiven ==
    gl.frames > 0 =>
        /\ cloud.called
        /\ bound.called
        /\ bound.input = cloud.spheres
        /\ hist # <<>>
        /\ gl.uSphereCount = Len(cloud.spheres)
        /\ gl.uSpheres = cloud.spheres
        /\ gl.uBoundingSphereCenter = bound.center
        /\ gl.uBoundingSphereRadius = bound.radius
        /\ gl.uNoiseTex = hist[Len(hist)].grid

(***************************************************************************)
(* Claims about the ray march                                              *)
(***************************************************************************)

\* C6: along the primary march of a ray that hits the bounding sphere the
\* transmittance starts at 1 and never increases from a step to the next: it is
\* unchanged at a step whose density is <= 0.001 and multiplied by a factor
\* exp(-density*(sigma_a+sigma_s)*marchStep) in (0,1] otherwise, marchStep being
\* >= 0 because tFar >= tNear; the march takes at most 64 steps.
C6_Step ==
    /\ (ray.phase = "idle" /\ ray'.phase = "march") =>
          /\ ray'.transmittance = FScale
          /\ ray'.tFar >= ray'.tNear
          /\ ray'.span >= 0
    /\ (ray.phase = "march") =>
          /\ ray'.transmittance <= ray.transmittance
          /\ ray'.i = ray.i + 1
          /\ ray'.i <= STEPS
          /\ IF ray'.dens <= FScale \div 1000
             THEN ray'.transmittance = ray.transmittance
             ELSE /\ 0 < ray'.factor
                  /\ ray'.factor <= FScale
                  /\ ray'.factor = exp(-Absorb(ray'.dens, ray.tFar - ray.tNear))
                  /\ ray'.transmittance = (ray.transmittance * ray'.factor) \div FScale

C6_TransmittanceNonIncreasing == [][C6_Step]_vars

\* A march past its tenth step that has been attenuated, the last step by a
\* factor below 1.
C6_Witness ==
    /\ ray.phase = "march"
    /\ ray.i > 10
    /\ ray.tFar > ray.tNear
    /\ ray.dens > FScale \div 1000
    /\ ray.factor < FScale
    /\ 0 < ray.transmittance
    /\ ray.transmittance < FScale \div 2

(***************************************************************************)
(* Claims about Noise.cpp                                                  *)
(***************************************************************************)

SameCall(a, b) == a.width = b.width /\ a.height = b.height /\ a.seed = b.seed

\* C1: any two calls of generatePerlinNoiseTexture with the same width >= 1,
\* height >= 1 and seed return the same grid, whatever calls were made before or
\* between them, and after every call the table p is the one built from that
\* call's seed alone.
C1_SameArgsSameGrid ==
    /\ \A i, j \in 1..Len(hist) :
          (SameCall(hist[i], hist[j]) /\ hist[i].width >= 1 /\ hist[i].height >= 1)
            => (hist[i].fault = hist[j].fault /\ hist[i].grid = hist[j].grid)
    /\ \A i, j \in 1..Len(hist) :
          (hist[i].seed = hist[j].seed) => (hist[i].table = hist[j].table)

\* A call repeated after a call with another seed that returned another grid.
C1_Witness ==
    /\ Len(hist) = 3
    /\ SameCall(hist[1], hist[3])
    /\ hist[1].width = 16
    /\ hist[2].width = 16
    /\ hist[2].seed # hist[1].seed
    /\ hist[2].grid # hist[1].grid
    /\ hist[2].table # hist[1].table
    /\ hist[3].grid = hist[1].grid

\* C9: a call with width <= 0 or height <= 0 returns an empty grid and does not
\* fault; a call with width, height >= 1 returns exactly width*height samples.
C9_NonPositiveSizeEmptyGrid ==
    \A i \in 1..Len(hist) :
        IF hist[i].width <= 0 \/ hist[i].height <= 0
        THEN ~hist[i].fault /\ Len(hist[i].grid) = 0
        ELSE ~hist[i].fault /\ Len(hist[i].grid) = hist[i].width * hist[i].height

\* The grid the code returns for (width, height, seed), from a fresh table.
GridOf(width, height, seed) == TextureData(initPermutation(seed, 1).p, width, height).data

SomeSeedDiffers(c) == \E s \in Seeds : GridOf(c.width, c.height, s) # c.grid

\* C10 as stated: for every width >= 8 and height >= 8 (8 x 8 included) two seeds
\* give grids that differ, that is, the grid of any call differs from the grid of
\* some seed.
C10_SeedDependentFrom8 ==
    \A i \in 1..Len(hist) :
        (hist[i].width >= 8 /\ hist[i].height >= 8) => SomeSeedDiffers(hist[i])

\* C10 amended: for every width >= 8 and height >= 8 other than 8 x 8 two seeds
\* give grids that differ; the 8 x 8 grid is the same, 127 in every sample, for
\* every seed.
C10_SeedDependentAbove8 ==
    \A i \in 1..Len(hist) :
        (hist[i].width >= 8 /\ hist[i].height >= 8) =>
            IF hist[i].width = 8 /\ hist[i].height = 8
            THEN \A k \in 1..Len(hist[i].grid) : hist[i].grid[k] = 127
            ELSE SomeSeedDiffers(hist[i])

\* A 16 x 8 call whose grid another seed changes.
C10_Witness ==
    /\ Len(hist) = 1
    /\ hist[1].width = 16
    /\ hist[1].height = 8
    /\ SomeSeedDiffers(hist[1])
    /\ \E k \in 1..Len(hist[1].grid) : hist[1].grid[k] # 127

\* Sample k (from 1) of a width-wide grid has zero fractional offsets: 8*i/width
\* and 8*j/height are integers.
ZeroFraction(c, k) ==
    /\ (Frequency * ((k - 1) % c.width)) % c.width = 0
    /\ (Frequency * ((k - 1) \div c.width)) % c.height = 0

\* C11: a sample whose coordinates 8*i/width and 8*j/height are both integers
\* is 127 for every seed; in particular the 1 x 1 grid is the single byte 127.
C11_ZeroFractionIs127 ==
    \A n \in 1..Len(hist) :
        (hist[n].width >= 1 /\ hist[n].height >= 1) =>
            /\ \A k \in 1..Len(hist[n].grid) :
                  ZeroFraction(hist[n], k) => hist[n].grid[k] = 127
            /\ (hist[n].width = 1 /\ hist[n].height = 1) => hist[n].grid = <<127>>

\* A 16 x 16 grid, by a seed other than 0, with lattice samples (all 127) next to
\* samples off the lattice that are not 127.
C11_Witness ==
    /\ Len(hist) = 1
    /\ hist[1].width = 16
    /\ hist[1].height = 16
    /\ hist[1].seed > 0
    /\ \E k \in 1..Len(hist[1].grid) : k > 1 /\ ZeroFraction(hist[1], k) /\ hist[1].grid[k] = 127
    /\ \E k \in 1..Len(hist[1].grid) : ~ZeroFraction(hist[1], k) /\ hist[1].grid[k] # 127

\* C12: after initPermutation(seed), for every seed, p[0..255] is a permutation
\* of 0..255 and p[i + 256] = p[i] for i in 0..255, so every place perlin reads
\* for any cell (X, Y), X and Y in 0..255, is one of the 512 places 0..511.
C12_PermutationDuplicated ==
    /\ hist # <<>> => p = hist[Len(hist)].table
    /\ \A n \in 1..Len(hist) :
          LET t == hist[n].table
          IN  /\ DOMAIN t = 0..(TableSize - 1)
              /\ {t[i] : i \in 0..(PermSize - 1)} = 0..(PermSize - 1)
              /\ \A i \in 0..(PermSize - 1) : t[i + PermSize] = t[i]
              /\ \A X \in 0..255, Y \in 0..255 :
                    PerlinIndices(t, X, Y) \subseteq 0..(TableSize - 1)

\* A shuffled table after a 16 x 16 call, in which cell (X, 255) with p[X] = 255
\* reads the last place, 511.
C12_Witness ==
    /\ Len(hist) = 1
    /\ hist[1].width = 16
    /\ hist[1].height = 16
    /\ \E i \in 0..(PermSize - 1) : p[i] # i
    /\ \E X \in 0..255 : p[X] = 255 /\ (TableSize - 1) \in PerlinIndices(p, X, 255)
=============================================================================
